---------------------------- MODULE Spec2Model ----------------------------
(***************************************************************************)
(* Model of the BooksToScrape crawler of src/web.py: the page loop         *)
(* scrape_books_toscrape run by the worker thread ScraperGUI._run_scrape,  *)
(* and the GUI handlers (start_scrape, request_stop, clear_results, the    *)
(* Tk main loop running root.after callbacks) it is interleaved with;      *)
(* the Save Results button with the four sinks; and the worker thread of   *)
(* the earlier version, web update.py, which crawls a single book or a     *)
(* category.                                                               *)
(*                                                                         *)
(* Text is a sequence of tokens (a token is a run of characters, " " is a  *)
(* whitespace token), a URL is the sequence of its segments between        *)
(* slashes ("http://h/c/" is <<"http:", "", "h", "c", "">>).               *)
(***************************************************************************)
EXTENDS Integers, Sequences, FiniteSets, TLC

(* ------------------------------ bounds -------------------------------- *)

\* Listing pages 1..MaxSitePages may carry products; later pages carry none.
MaxSitePages == 2

\* Most product containers on one listing page.
MaxItems == 2

\* Most crawls one run of the GUI starts.
MaxCrawls == 1

\* Most class names on the star-rating element of a product container.
MaxClasses == 2

\* The crawls the user starts when the Start button is pressed again.
MaxStarts == 2

(* ------------------------- values of the program ---------------------- *)

\* Python's None (the absent rating, the blank Max Pages entry).
None == -1

\* requests: the status of a response; NoResponse stands for a request that
\* raised (timeout, connection refused) instead of answering.
NoResponse == 0
StatusOk == 200
StatusNotFound == 404
StatusServerError == 500

EmptyText == << >>

(* ------------------------------ strings ------------------------------- *)

\* str.strip() of a title or a price: leading and trailing whitespace goes.
RECURSIVE LStrip(_)
LStrip(s) ==
    IF s # << >> /\ Head(s) = " " THEN LStrip(Tail(s)) ELSE s

RECURSIVE RStrip(_)
RStrip(s) ==
    IF s # << >> /\ s[Len(s)] = " " THEN RStrip(SubSeq(s, 1, Len(s) - 1)) ELSE s

Strip(s) == RStrip(LStrip(s))

\* " ".join(text.split()): the words of the text, whitespace runs dropped.
RECURSIVE SplitJoin(_)
SplitJoin(s) ==
    IF s = << >> THEN << >>
    ELSE IF Head(s) = " " THEN SplitJoin(Tail(s))
    ELSE <<Head(s)>> \o SplitJoin(Tail(s))

(* -------------------------------- URLs -------------------------------- *)

\* start_url.rstrip('/'): every trailing slash goes, so every trailing
\* empty segment does.
RECURSIVE RStripSlash(_)
RStripSlash(u) ==
    IF Len(u) > 1 /\ u[Len(u)] = ""
    THEN RStripSlash(SubSeq(u, 1, Len(u) - 1))
    ELSE u

\* f"page-{page_num}.html"
PageFile(n) ==
    <<"page-1.html", "page-2.html", "page-3.html", "page-4.html",
      "page-5.html", "page-6.html">>[n]

\* url.endswith("index.html"), decided on the last segment.
EndsWithIndex(u) ==
    u # << >> /\ u[Len(u)] \in {"index.html", "old_index.html"}

\* url.rsplit('/', 1)[0]: the URL up to its last slash (the whole URL when
\* it has none).
RSplitBase(u) ==
    IF Len(u) > 1 THEN SubSeq(u, 1, Len(u) - 1) ELSE u

\* Mutant: the page file is appended to the URL even when it ends with
\* index.html.
PageUrl_AppendOnly(url, page_num) ==
    IF page_num = 1 THEN url
    ELSE RStripSlash(url) \o <<PageFile(page_num)>>

\* The URL of listing page page_num (web.py lines 52-60).
PageUrl(url, page_num) ==
    IF page_num = 1 THEN url
    ELSE IF EndsWithIndex(url)
         THEN RSplitBase(url) \o <<PageFile(page_num)>>
         ELSE RStripSlash(url) \o <<PageFile(page_num)>>

\* requests refuses a URL without a scheme before it sends anything.
WellFormedUrl(u) ==
    Len(u) >= 3 /\ u[1] \in {"http:", "https:"} /\ u[2] = "" /\ u[3] # ""

\* The segments of the scheme and the host, which ".." never climbs above.
RootLen == 3

\* Dot-segment removal of RFC 3986, as urljoin applies it.
RECURSIVE RemoveDots(_, _)
RemoveDots(out, in) ==
    IF in = << >> THEN out
    ELSE IF Head(in) = ".."
         THEN RemoveDots(IF Len(out) > RootLen
                         THEN SubSeq(out, 1, Len(out) - 1) ELSE out,
                         Tail(in))
         ELSE RemoveDots(Append(out, Head(in)), Tail(in))

\* requests.compat.urljoin(page_url, relative_link) for a relative link:
\* the link replaces the last segment of the page's URL.
UrlJoin(base, rel) ==
    IF rel = << >> THEN base
    ELSE RemoveDots(<< >>, RSplitBase(base) \o rel)

(* ------------------------------ the site ------------------------------ *)

Digit(n) == <<"1", "2", "3", "4", "5", "6">>[n]

RatingLabels == <<"One", "Two", "Three", "Four", "Five", "Zero">>

\* The markup of the product container in slot i of listing page p: its
\* title attribute, its price element, the class list of its star-rating
\* element and the href of its title anchor.
Pod(p, i, anchor) ==
    [ anchor    |-> anchor,
      title     |-> IF i = 1 THEN <<" ", "t", Digit(p), Digit(i)>>
                             ELSE <<"t", Digit(p), Digit(i), " ">>,
      price_el  |-> (p + i) % 2 = 0,
      price     |-> <<" ", "51.77", Digit(i)>>,
      star_el   |-> i # 3,
      classes   |-> IF (p + i) % 3 = 0 THEN <<"star-rating">>
                    ELSE <<"star-rating", RatingLabels[((2 * p + i) % 6) + 1]>>,
      href      |-> IF i = 1 THEN <<"..", "b", Digit(p), Digit(i)>>
                             ELSE <<"b", Digit(p), Digit(i)>> ]

\* The listing bodies page p may answer with: up to MaxItems containers in
\* slot order, any of which may lack its title anchor.
ListingBodies(p) ==
    IF p > MaxSitePages THEN { << >> }
    ELSE UNION { { [i \in 1..n |-> Pod(p, i, i \notin bad)] :
                     bad \in SUBSET (1..n) } : n \in 0..MaxItems }

NoBody == [pods |-> << >>, avail_el |-> FALSE, text |-> << >>]

\* What a listing GET can come back with.
ListingResponses(p) ==
    { [status |-> StatusOk, pods |-> b, avail_el |-> FALSE, text |-> << >>] :
        b \in ListingBodies(p) }
    \cup { [status |-> s] @@ NoBody :
             s \in {StatusNotFound, StatusServerError, NoResponse} }

\* What a detail GET can come back with.
DetailResponses ==
    { [status |-> StatusOk, pods |-> << >>, avail_el |-> TRUE,
       text |-> <<" ", "In", " ", " ", "stock", " ">>],
      [status |-> StatusOk] @@ NoBody,
      [status |-> StatusServerError] @@ NoBody,
      [status |-> NoResponse] @@ NoBody }

\* The entries of the Start URL field.
StartUrlEntries ==
    { <<"http:", "", "h", "c", "index.html">>,
      <<"http:", "", "h", "c", "">>,
      <<"c", "index.html">>,
      << >> }

\* The entries of the Max Pages field.
MaxPagesEntries == {"", "0", "1", "2", "-1"}

\* str.isdigit() and int() on an entry of the Max Pages field.
IsDigit(entry) == entry \in {"0", "1", "2", "3"}

IntOf(entry) ==
    CASE entry = "0" -> 0
      [] entry = "1" -> 1
      [] entry = "2" -> 2
      [] entry = "3" -> 3

\* Python's truth value of max_pages: None and 0 are false.
Truthy(x) == x # None /\ x # 0

(* ----------------------------- parse_rating --------------------------- *)

\* Mutant: mapping.get(rating_class, 0), a number for an unknown label.
parse_rating_ZeroDefault(rating_class) ==
    CASE rating_class = "One" -> 1
      [] rating_class = "Two" -> 2
      [] rating_class = "Three" -> 3
      [] rating_class = "Four" -> 4
      [] rating_class = "Five" -> 5
      [] OTHER -> 0

parse_rating(rating_class) ==
    CASE rating_class = "One" -> 1
      [] rating_class = "Two" -> 2
      [] rating_class = "Three" -> 3
      [] rating_class = "Four" -> 4
      [] rating_class = "Five" -> 5
      [] OTHER -> None

(* ------------------------------- state -------------------------------- *)

VARIABLES
    \* ScraperGUI
    stop_event,     \* self.stop_event
    self_results,   \* self.results
    scrape_thread,  \* self.scrape_thread: "none", "alive" or "dead"
    status_text,    \* the status line
    progress,       \* the progress bar's value
    tree,           \* the rows of the preview table
    dialog,         \* the last "Scraping failed" box shown
    afterq,         \* the callbacks handed to root.after, oldest first
    \* the worker thread: _run_scrape and scrape_books_toscrape
    pc,             \* where the worker is
    start_url,      \* the start_url argument
    max_pages,      \* the max_pages argument
    url,            \* start_url.rstrip('/')
    page_num,
    page_url,
    results,        \* the local list scrape_books_toscrape builds
    resp,           \* the response to the listing GET
    idx,            \* the position of prod in products
    cand,           \* title, price, rating and product_link of prod
    p_resp,         \* the response to the detail GET
    exc,            \* the exception that left scrape_books_toscrape
    \* history
    log,            \* the requests sent by this crawl, oldest first
    listings,       \* the listing requests among them, with their responses
    stop_during,    \* the page being enriched when Stop was pressed, or 0
    end_reason,     \* why the page loop was left
    max_pages_entry, \* the Max Pages entry this crawl was started with
    crawls,         \* the crawls started so far
    progress_calls, \* the calls of progress_callback made by this crawl
    already_running, \* the "Already running" box was shown since the last start
    \* the worker thread of the earlier version (web update.py)
    mode,           \* the function _scrape_thread called: "single", "category"
    \* saving
    mysql_available, \* MYSQL_AVAILABLE
    save_type,      \* the Save As radio buttons
    save_pc,        \* where save_results is
    df,             \* the DataFrame save_results builds
    store,          \* what each destination holds
    box,            \* the last message box save_results showed
    store_before    \* what the destinations held when save_results began

gui_vars == <<stop_event, self_results, scrape_thread,
              status_text, progress, tree, dialog, afterq>>

worker_vars == <<pc, start_url, max_pages, url, page_num, page_url, results, resp, idx,
                 cand, p_resp, exc>>

history_vars == <<log, listings, stop_during, end_reason, max_pages_entry, crawls,
                  progress_calls>>

update_vars == <<mode>>

start_vars == <<already_running>>

sink_vars == <<mysql_available, save_type, save_pc, df, store, box,
               store_before>>

vars == <<gui_vars, worker_vars, history_vars, update_vars, sink_vars,
         start_vars>>

NoExc == [type |-> "none", page |-> 0, url |-> << >>, cause |-> NoResponse]

NoCand == [Title |-> << >>, Price |-> << >>, Rating |-> None, Link |-> << >>]

NoResp == [status |-> NoResponse] @@ NoBody

Status(text, n) == [text |-> text, n |-> n]

NoDialog == [title |-> "", exc |-> NoExc]

\* One callback handed to root.after.
Callback(cb, text, n, e) == [cb |-> cb, text |-> text, n |-> n, exc |-> e]

\* The destinations a save can write: the file chosen for each file format
\* and the table `products` of the MySQL database.
Destinations == {"csv", "excel", "sqlite", "mysql"}

\* A destination that does not exist, and one that holds rows.
Absent == [exists |-> FALSE, rows |-> << >>]

Holding(rows) == [exists |-> TRUE, rows |-> rows]

\* web.py never calls the function of web update.py.
NoUpdate == mode = "none"

\* Nothing is being saved and no destination exists yet (line 190: CSV is
\* the format selected at first).
NoSave ==
    /\ mysql_available = TRUE
    /\ save_type = "csv"
    /\ save_pc = "idle"
    /\ df = << >>
    /\ store = [d \in Destinations |-> Absent]
    /\ box = ""
    /\ store_before = store

\* ScraperGUI.__init__
Init ==
    /\ already_running = FALSE
    /\ NoUpdate
    /\ NoSave
    /\ stop_event = FALSE
    /\ self_results = << >>
    /\ scrape_thread = "none"
    /\ status_text = Status("Idle", 0)
    /\ progress = 0
    /\ tree = << >>
    /\ dialog = NoDialog
    /\ afterq = << >>
    /\ pc = "none"
    /\ start_url = << >>
    /\ max_pages = None
    /\ url = << >>
    /\ page_num = 0
    /\ page_url = << >>
    /\ results = << >>
    /\ resp = NoResp
    /\ idx = 0
    /\ cand = NoCand
    /\ p_resp = NoResp
    /\ exc = NoExc
    /\ log = << >>
    /\ listings = << >>
    /\ stop_during = 0
    /\ end_reason = "none"
    /\ max_pages_entry = ""
    /\ crawls = 0
    /\ progress_calls = << >>

(* ---------------------------- GUI handlers ---------------------------- *)

\* The Stop button.
request_stop ==
    /\ stop_event' = TRUE
    /\ status_text' = Status("Stopping...", 0)
    /\ stop_during' = IF ~stop_event /\ pc \in {"item", "detail"}
                      THEN page_num ELSE stop_during
    /\ UNCHANGED <<self_results, scrape_thread,
                   progress, tree, dialog, afterq>>
    /\ UNCHANGED worker_vars
    /\ UNCHANGED <<log, listings, end_reason, max_pages_entry, crawls,
                   progress_calls>>
    /\ UNCHANGED <<update_vars, sink_vars, start_vars>>

\* max_pages as start_scrape reads it from the Max Pages field.
MaxPagesOf(entry) == IF IsDigit(entry) THEN IntOf(entry) ELSE None

\* Mutant: the worker thread is never taken to be alive.
is_alive_Never == FALSE

\* self.scrape_thread and self.scrape_thread.is_alive() (line 255)
is_alive == scrape_thread = "alive"

\* The Start Scraping button while a worker is alive (lines 255-257): the
\* "Already running" box is shown and dismissed, nothing else happens.
start_scrape_running ==
    /\ is_alive
    /\ already_running' = TRUE
    /\ UNCHANGED <<dialog, stop_event, self_results, scrape_thread, status_text,
                   progress, tree, afterq>>
    /\ UNCHANGED worker_vars
    /\ UNCHANGED history_vars
    /\ UNCHANGED <<update_vars, sink_vars>>

\* The Start Scraping button with a blank Start URL field (lines 258-261):
\* the "Input error" box is shown and dismissed, nothing else happens.
start_scrape_blank ==
    /\ ~is_alive
    /\ UNCHANGED <<dialog, stop_event, self_results, scrape_thread, status_text,
                   progress, tree, afterq>>
    /\ UNCHANGED worker_vars
    /\ UNCHANGED history_vars
    /\ UNCHANGED <<update_vars, sink_vars, start_vars>>

\* The Start Scraping button with the fields reading u and m: the state is
\* reset and the worker thread started (lines 262-277).
start_scrape_accepted(u, m) ==
    /\ ~is_alive
    /\ u # << >>
    /\ stop_event' = FALSE
    /\ self_results' = << >>
    /\ tree' = << >>
    /\ progress' = 0
    /\ status_text' = Status("Starting...", 0)
    /\ scrape_thread' = "alive"
    /\ pc' = "start"
    /\ start_url' = u
    /\ max_pages' = MaxPagesOf(m)
    /\ url' = << >>
    /\ page_num' = 0
    /\ page_url' = << >>
    /\ results' = << >>
    /\ resp' = NoResp
    /\ idx' = 0
    /\ cand' = NoCand
    /\ p_resp' = NoResp
    /\ exc' = NoExc
    /\ log' = << >>
    /\ listings' = << >>
    /\ stop_during' = 0
    /\ end_reason' = "none"
    /\ max_pages_entry' = m
    /\ crawls' = crawls + 1
    /\ progress_calls' = << >>
    /\ already_running' = FALSE
    /\ UNCHANGED <<dialog, afterq>>
    /\ UNCHANGED <<update_vars, sink_vars>>

\* ScraperGUI.start_scrape
start_scrape ==
    \/ start_scrape_running
    \/ start_scrape_blank
    \/ \E u \in StartUrlEntries \ {<< >>}, m \in MaxPagesEntries :
           start_scrape_accepted(u, m)

\* The Clear Results button.
clear_results ==
    /\ self_results' = << >>
    /\ tree' = << >>
    /\ status_text' = Status("Cleared results", 0)
    /\ progress' = 0
    /\ UNCHANGED <<stop_event, scrape_thread, dialog,
                   afterq>>
    /\ UNCHANGED worker_vars
    /\ UNCHANGED history_vars
    /\ UNCHANGED <<update_vars, sink_vars, start_vars>>

(* ------------------------- the worker thread -------------------------- *)

\* Mutant: a fixed page number in the record.
Record_FixedPage(c, availability, page) ==
    [ Title        |-> c.Title,
      Price        |-> c.Price,
      Rating       |-> c.Rating,
      Availability |-> availability,
      Page         |-> 1,
      Link         |-> c.Link ]

\* The record scrape_books_toscrape appends for one product.
Record(c, availability, page) ==
    [ Title        |-> c.Title,
      Price        |-> c.Price,
      Rating       |-> c.Rating,
      Availability |-> availability,
      Page         |-> page,
      Link         |-> c.Link ]

\* title, price, rating and product_link of one product container, on the
\* listing page fetched from pu (web.py lines 81-98).
Extract(pod, pu) ==
    [ Title  |-> Strip(pod.title),
      Price  |-> IF pod.price_el THEN Strip(pod.price) ELSE EmptyText,
      Rating |-> IF pod.star_el /\ Len(pod.classes) > 1
                 THEN parse_rating(pod.classes[2]) ELSE None,
      Link   |-> UrlJoin(pu, pod.href) ]

\* Mutant: a placeholder instead of the blank availability.
Availability_Placeholder(r) ==
    IF r.status = StatusOk /\ r.avail_el THEN SplitJoin(r.text) ELSE <<"N/A">>

\* availability as lines 101-110 leave it after the detail GET.
Availability(r) ==
    IF r.status = StatusOk /\ r.avail_el THEN SplitJoin(r.text) ELSE EmptyText

\* Mutant: the stop flag left at its default, lambda: False.
stop_flag_default == FALSE

\* stop_flag(), the lambda _run_scrape passes (line 290).
stop_flag == stop_event

\* Mutant: an empty listing page is taken for a failure.
ListingOutcome_EmptyRaises(r) ==
    IF r.status = StatusNotFound THEN "not found"
    ELSE IF r.status # StatusOk THEN "raise"
    ELSE IF r.pods = << >> THEN "raise"
    ELSE "products"

\* Mutant: a failed listing GET is taken for the end of the catalog.
ListingOutcome_FailureEnds(r) ==
    IF r.status = StatusNotFound THEN "not found"
    ELSE IF r.status # StatusOk THEN "empty"
    ELSE IF r.pods = << >> THEN "empty"
    ELSE "products"

\* Mutant: raise_for_status() runs before the 404 test.
ListingOutcome_NotFoundRaises(r) ==
    IF r.status # StatusOk THEN "raise"
    ELSE IF r.pods = << >> THEN "empty"
    ELSE "products"

\* What lines 64-78 make of the listing response.
ListingOutcome(r) ==
    IF r.status = StatusNotFound THEN "not found"
    ELSE IF r.status # StatusOk THEN "raise"
    ELSE IF r.pods = << >> THEN "empty"
    ELSE "products"

\* Mutant: the page cap never looked at.
MaxReached_Never(mp, pn) == FALSE

\* Mutant: the page cap compared with >=.
MaxReached_OffByOne(mp, pn) == Truthy(mp) /\ pn >= mp

\* line 126: the page cap is reached.
MaxReached(mp, pn) == Truthy(mp) /\ pn > mp

\* _run_scrape up to the while loop of scrape_books_toscrape
\* (lines 287, 43-45).
RunScrapeBegin ==
    /\ pc = "start"
    /\ afterq' = Append(afterq,
                        Callback("status", "Scraping in progress...", 0, NoExc))
    /\ results' = << >>
    /\ page_num' = 1
    /\ url' = RStripSlash(start_url)
    /\ pc' = "loop"
    /\ UNCHANGED <<stop_event, self_results,
                   scrape_thread, status_text, progress, tree, dialog>>
    /\ UNCHANGED <<start_url, max_pages, page_url, resp, idx, cand, p_resp, exc>>
    /\ UNCHANGED history_vars
    /\ UNCHANGED <<update_vars, sink_vars, start_vars>>

\* The top of the while loop: the stop flag, the page's URL, the listing GET
\* (lines 47-63).
LoopTop ==
    /\ pc = "loop"
    /\ IF stop_flag
       THEN /\ pc' = "return"
            /\ end_reason' = "stop"
            /\ UNCHANGED <<page_url, resp, log, listings>>
       ELSE /\ page_url' = PageUrl(url, page_num)
            /\ pc' = "resp"
            /\ UNCHANGED end_reason
            /\ IF WellFormedUrl(page_url')
               THEN \E r \in ListingResponses(page_num) :
                        LET request == [kind |-> "listing",
                                        page |-> page_num,
                                        slot |-> 0,
                                        url  |-> page_url',
                                        resp |-> r]
                        IN /\ resp' = r
                           /\ log' = Append(log, request)
                           /\ listings' = Append(listings, request)
               ELSE /\ resp' = NoResp
                    /\ UNCHANGED <<log, listings>>
    /\ UNCHANGED gui_vars
    /\ UNCHANGED <<start_url, max_pages, url, page_num, results, idx, cand,
                   p_resp, exc>>
    /\ UNCHANGED <<stop_during, max_pages_entry, crawls,
                   progress_calls>>
    /\ UNCHANGED <<update_vars, sink_vars, start_vars>>

\* The listing response: 404, a failure, an empty page or products
\* (lines 64-78).
HandleListing ==
    /\ pc = "resp"
    /\ IF ListingOutcome(resp) = "not found"
       THEN /\ pc' = "return"
            /\ end_reason' = "404"
            /\ UNCHANGED <<exc, idx>>
       ELSE IF ListingOutcome(resp) = "raise"
       THEN /\ pc' = "raised"
            /\ end_reason' = "fetch failed"
            /\ exc' = [type |-> "RuntimeError", page |-> page_num,
                       url |-> page_url, cause |-> resp.status]
            /\ UNCHANGED idx
       ELSE IF ListingOutcome(resp) = "empty"
       THEN /\ pc' = "return"
            /\ end_reason' = "empty"
            /\ UNCHANGED <<exc, idx>>
       ELSE /\ pc' = "item"
            /\ idx' = 1
            /\ UNCHANGED <<exc, end_reason>>
    /\ UNCHANGED gui_vars
    /\ UNCHANGED <<start_url, max_pages, url, page_num, page_url, results,
                   resp, cand, p_resp>>
    /\ UNCHANGED <<log, listings, stop_during, max_pages_entry, crawls,
                   progress_calls>>
    /\ UNCHANGED <<update_vars, sink_vars, start_vars>>

\* One product container: its listing fields, then the detail GET
\* (lines 80-103). prod.h3.a is None when the title anchor is missing.
ExtractItem ==
    /\ pc = "item"
    /\ LET pod == resp.pods[idx] IN
       IF ~pod.anchor
       THEN /\ pc' = "raised"
            /\ end_reason' = "extraction failed"
            /\ exc' = [type |-> "AttributeError", page |-> page_num,
                       url |-> page_url, cause |-> NoResponse]
            /\ UNCHANGED <<cand, p_resp, log>>
            /\ UNCHANGED listings
       ELSE /\ cand' = Extract(pod, page_url)
            /\ pc' = "detail"
            /\ \E r \in DetailResponses :
                   /\ p_resp' = r
                   /\ log' = Append(log, [kind |-> "detail",
                                          page |-> page_num,
                                          slot |-> idx,
                                          url  |-> cand'.Link,
                                          resp |-> NoResp])
            /\ UNCHANGED <<exc, end_reason, listings>>
    /\ UNCHANGED gui_vars
    /\ UNCHANGED <<start_url, max_pages, url, page_num, page_url, results,
                   resp, idx>>
    /\ UNCHANGED <<stop_during, max_pages_entry, crawls,
                   progress_calls>>
    /\ UNCHANGED <<update_vars, sink_vars, start_vars>>

\* The detail response and the append; after the page's last product the
\* progress callback, the next page number and the page cap
\* (lines 104-127).
HandleDetail ==
    /\ pc = "detail"
    /\ results' = Append(results, Record(cand, Availability(p_resp), page_num))
    /\ IF idx < Len(resp.pods)
       THEN /\ idx' = idx + 1
            /\ pc' = "item"
            /\ UNCHANGED <<page_num, afterq, end_reason, progress_calls>>
       ELSE /\ afterq' = afterq \o
                <<Callback("status", "Scraped pages", page_num, NoExc),
                  Callback("step", "", 0, NoExc)>>
            /\ progress_calls' =
                   Append(progress_calls,
                          [current_page |-> page_num,
                           second       |-> None,
                           appended     |-> Len(results'),
                           fetched      |-> Len(listings)])
            /\ page_num' = page_num + 1
            /\ IF MaxReached(max_pages, page_num')
               THEN pc' = "return" /\ end_reason' = "max"
               ELSE pc' = "loop" /\ UNCHANGED end_reason
            /\ UNCHANGED idx
    /\ UNCHANGED <<stop_event, self_results,
                   scrape_thread, status_text, progress, tree, dialog>>
    /\ UNCHANGED <<start_url, max_pages, url, page_url, resp, cand, p_resp, exc>>
    /\ UNCHANGED <<log, listings, stop_during, max_pages_entry, crawls>>
    /\ UNCHANGED <<update_vars, sink_vars, start_vars>>

\* scrape_books_toscrape returned: _run_scrape stores the list and asks the
\* main loop for the preview (lines 291-295); the thread ends.
Handoff ==
    /\ pc = "return"
    /\ self_results' = results
    /\ afterq' = afterq \o
         <<Callback("populate", "", 0, NoExc),
           Callback("status", "Scraping finished", Len(results), NoExc),
           Callback("progress100", "", 0, NoExc)>>
    /\ pc' = "done"
    /\ scrape_thread' = "dead"
    /\ UNCHANGED <<stop_event, status_text, progress,
                   tree, dialog>>
    /\ UNCHANGED <<start_url, max_pages, url, page_num, page_url, results,
                   resp, idx, cand, p_resp, exc>>
    /\ UNCHANGED history_vars
    /\ UNCHANGED <<update_vars, sink_vars, start_vars>>

\* scrape_books_toscrape raised: _run_scrape asks the main loop for the
\* error box (lines 296-298); the thread ends.
HandleExc ==
    /\ pc = "raised"
    /\ afterq' = afterq \o
         <<Callback("showerror", "Scraping failed", 0, exc),
           Callback("status", "Error during scraping", 0, NoExc)>>
    /\ pc' = "done"
    /\ scrape_thread' = "dead"
    /\ UNCHANGED <<stop_event, self_results,
                   status_text, progress, tree, dialog>>
    /\ UNCHANGED <<start_url, max_pages, url, page_num, page_url, results,
                   resp, idx, cand, p_resp, exc>>
    /\ UNCHANGED history_vars
    /\ UNCHANGED <<update_vars, sink_vars, start_vars>>

(* --------------------------- the Tk main loop ------------------------- *)

\* The widest preview: rows, characters of a title, of an availability.
PreviewRows == 200
PreviewTitle == 60
PreviewAvailability == 30

Take(s, n) == IF Len(s) <= n THEN s ELSE SubSeq(s, 1, n)

\* ScraperGUI._populate_preview
PopulatePreview(rs) ==
    [ i \in 1..Len(Take(rs, PreviewRows)) |->
        <<Take(rs[i].Title, PreviewTitle), rs[i].Price, rs[i].Rating,
          Take(rs[i].Availability, PreviewAvailability), rs[i].Page>> ]

\* The progress bar's maximum, at which step() wraps.
ProgressMaximum == 100
ProgressStep == 10

\* The main loop runs the oldest callback handed to root.after.
RunAfter ==
    /\ afterq # << >>
    /\ LET cb == Head(afterq) IN
       /\ afterq' = Tail(afterq)
       /\ status_text' = IF cb.cb = "status" THEN Status(cb.text, cb.n)
                         ELSE status_text
       /\ progress' = CASE cb.cb = "step" ->
                             (progress + ProgressStep) % ProgressMaximum
                        [] cb.cb = "progress100" -> ProgressMaximum
                        [] OTHER -> progress
       /\ tree' = IF cb.cb = "populate" THEN PopulatePreview(self_results)
                  ELSE tree
       /\ dialog' = IF cb.cb = "showerror"
                    THEN [title |-> cb.text, exc |-> cb.exc]
                    ELSE dialog
    /\ UNCHANGED <<stop_event, self_results,
                   scrape_thread>>
    /\ UNCHANGED worker_vars
    /\ UNCHANGED history_vars
    /\ UNCHANGED <<update_vars, sink_vars, start_vars>>

(* --------------------------- specification ---------------------------- *)

\* The user starts at most MaxCrawls crawls.
Next ==
    \/ (start_scrape /\ (crawls' # crawls => crawls < MaxCrawls))
    \/ request_stop
    \/ clear_results
    \/ RunAfter
    \/ RunScrapeBegin
    \/ LoopTop
    \/ HandleListing
    \/ ExtractItem
    \/ HandleDetail
    \/ Handoff
    \/ HandleExc

Spec == Init /\ [][Next]_vars

(***************************************************************************)
(* One crawl on its own: the worker thread from the moment start_scrape    *)
(* has started it, with the Stop button. The main loop's callbacks and the *)
(* Clear Results button write only what the worker thread never reads      *)
(* (the status line, the progress bar, the preview, self.results), so the  *)
(* worker goes through the same steps here as under Spec.                  *)
(***************************************************************************)

\* The arguments start_scrape gives the worker thread: every start URL it
\* accepts; no page cap, or a positive one ("0" and "-1" give the worker
\* the same uncapped loop as the blank entry).
ScrapeStartUrls == StartUrlEntries \ {<< >>}

ScrapeMaxPagesEntries == {"", "1", "2"}

InitScrape ==
    /\ already_running = FALSE
    /\ NoUpdate
    /\ NoSave
    /\ stop_event = FALSE
    /\ self_results = << >>
    /\ scrape_thread = "alive"
    /\ status_text = Status("Starting...", 0)
    /\ progress = 0
    /\ tree = << >>
    /\ dialog = NoDialog
    /\ afterq = << >>
    /\ pc = "start"
    /\ start_url \in ScrapeStartUrls
    /\ max_pages_entry \in ScrapeMaxPagesEntries
    /\ max_pages = MaxPagesOf(max_pages_entry)
    /\ url = << >>
    /\ page_num = 0
    /\ page_url = << >>
    /\ results = << >>
    /\ resp = NoResp
    /\ idx = 0
    /\ cand = NoCand
    /\ p_resp = NoResp
    /\ exc = NoExc
    /\ log = << >>
    /\ listings = << >>
    /\ stop_during = 0
    /\ end_reason = "none"
    /\ crawls = 1
    /\ progress_calls = << >>

NextScrape ==
    \/ request_stop
    \/ RunScrapeBegin
    \/ LoopTop
    \/ HandleListing
    \/ ExtractItem
    \/ HandleDetail
    \/ Handoff
    \/ HandleExc

SpecScrape == InitScrape /\ [][NextScrape]_vars

(***************************************************************************)
(* One crawl of the index page that is given its turn: the thread started  *)
(* at line 277 is scheduled for as long as it has a step to take, and      *)
(* every request comes back, with an answer or with an exception (line 63  *)
(* gives requests.get a timeout).                                          *)
(***************************************************************************)

InitTerminate ==
    /\ InitScrape
    /\ start_url = <<"http:", "", "h", "c", "index.html">>

\* The steps of the worker thread.
RunScrape ==
    \/ RunScrapeBegin
    \/ LoopTop
    \/ HandleListing
    \/ ExtractItem
    \/ HandleDetail
    \/ Handoff
    \/ HandleExc

SpecTerminate ==
    InitTerminate /\ [][NextScrape]_vars /\ WF_vars(RunScrape)

(***************************************************************************)
(* The Start button pressed again and again: the whole GUI, the worker     *)
(* thread and the main loop over a site that answers every crawl the same  *)
(* plain way (a listing page holds at most one product container, with its *)
(* title anchor, or the server fails; a detail page answers 200 with its   *)
(* availability), the fields reading the index page and no page cap.      *)
(***************************************************************************)

PlainStart ==
    /\ start_url = <<"http:", "", "h", "c", "index.html">>
    /\ max_pages_entry = ""

PlainListing ==
    /\ resp.status \in {StatusOk, StatusServerError}
    /\ Len(resp.pods) <= 1
    /\ \A i \in 1..Len(resp.pods) : resp.pods[i].anchor

PlainDetail ==
    /\ p_resp.status = StatusOk
    /\ p_resp.avail_el

NextStart ==
    \/ (start_scrape /\ (crawls' # crawls => crawls < MaxStarts /\ PlainStart'))
    \/ request_stop
    \/ clear_results
    \/ RunAfter
    \/ RunScrapeBegin
    \/ (LoopTop /\ (pc' = "resp" => PlainListing'))
    \/ HandleListing
    \/ (ExtractItem /\ (pc' = "detail" => PlainDetail'))
    \/ HandleDetail
    \/ Handoff
    \/ HandleExc

SpecStart == Init /\ [][NextStart]_vars

(***************************************************************************)
(* One product container on its way through the item loop: the worker     *)
(* thread from the moment the listing page 1 has answered with one        *)
(* product whose star-rating element carries any class list, up to the    *)
(* append of its record.                                                  *)
(***************************************************************************)

\* The class names a star-rating element may carry.
ClassNames ==
    {"star-rating", "One", "Two", "Three", "Four", "Five",
     "Zero", "Six", "one", "THREE"}

\* The class lists of at most n names.
RECURSIVE ClassLists(_)
ClassLists(n) ==
    IF n = 0 THEN { << >> }
    ELSE ClassLists(n - 1)
         \cup { Append(cl, c) : cl \in { x \in ClassLists(n - 1) : Len(x) = n - 1 },
                                c \in ClassNames }

\* The product containers: slot 1 of page 1 with or without a star-rating
\* element, with any class list on it.
RatingPods ==
    { [Pod(1, 1, TRUE) EXCEPT !.star_el = se, !.classes = cl] :
        se \in BOOLEAN, cl \in ClassLists(MaxClasses) }

InitRating ==
    /\ already_running = FALSE
    /\ NoUpdate
    /\ NoSave
    /\ stop_event = FALSE
    /\ self_results = << >>
    /\ scrape_thread = "alive"
    /\ status_text = Status("Starting...", 0)
    /\ progress = 0
    /\ tree = << >>
    /\ dialog = NoDialog
    /\ afterq = <<Callback("status", "Scraping in progress...", 0, NoExc)>>
    /\ pc = "item"
    /\ start_url = <<"http:", "", "h", "c", "index.html">>
    /\ max_pages_entry = ""
    /\ max_pages = None
    /\ url = RStripSlash(start_url)
    /\ page_num = 1
    /\ page_url = PageUrl(url, page_num)
    /\ results = << >>
    /\ \E pod \in RatingPods :
           resp = [status |-> StatusOk, pods |-> <<pod>>,
                   avail_el |-> FALSE, text |-> << >>]
    /\ idx = 1
    /\ cand = NoCand
    /\ p_resp = NoResp
    /\ exc = NoExc
    /\ log = <<[kind |-> "listing", page |-> page_num, slot |-> 0,
                url |-> page_url, resp |-> resp]>>
    /\ listings = log
    /\ stop_during = 0
    /\ end_reason = "none"
    /\ crawls = 1
    /\ progress_calls = << >>

NextRating ==
    \/ ExtractItem
    \/ HandleDetail

SpecRating == InitRating /\ [][NextRating]_vars

(***************************************************************************)
(* The earlier version of the program, web update.py: _scrape_thread      *)
(* takes the start URL for a single book or for a category, by its text,  *)
(* and calls scrape_single_book or scrape_category.                       *)
(***************************************************************************)

\* The books of the site: each has a detail page of its own.
ItemUrls ==
    { <<"http:", "", "h", "catalogue", "b11", "index.html">>,
      <<"http:", "", "h", "catalogue", "b12", "index.html">> }

\* The category listings of the site, by their first page.
CategoryUrls ==
    { <<"http:", "", "h", "catalogue", "category", "c", "index.html">>,
      <<"http:", "", "h", "catalogue", "category", "c", "">>,
      <<"http:", "", "h", "index.html">> }

\* The entries of the URL field of web update.py.
UpdateStartUrls == ItemUrls \cup CategoryUrls

UpdateMaxPagesEntries == {"", "1"}

\* What the start URL addresses on the site.
AddressesItem(u) == u \in ItemUrls

\* "catalogue/" in url: a segment ending with catalogue, a slash after it.
InCatalogue(u) ==
    \E i \in 1..(Len(u) - 1) : u[i] \in {"catalogue", "oldcatalogue"}

\* url.endswith(".html"), decided on the last segment.
EndsWithHtml(u) ==
    u # << >> /\ u[Len(u)] \in {"index.html", "old_index.html", "page-1.html",
                                "page-2.html", "page-3.html", "page-4.html"}

\* line 312 of web update.py: the start URL is taken for a single book.
TakenForSingleBook(u) == InCatalogue(u) /\ EndsWithHtml(u)

\* The markup scrape_single_book looks for, absent from a page.
NoBook ==
    [h1 |-> FALSE, title |-> << >>, price_el |-> FALSE, price |-> << >>,
     star_el |-> FALSE, classes |-> << >>]

\* What the GET of a book's detail page can come back with.
BookResponses ==
    { [status |-> StatusOk, pods |-> << >>, avail_el |-> a,
       text |-> IF a THEN <<" ", "In", " ", " ", "stock", " ">> ELSE << >>,
       h1 |-> h, title |-> <<" ", "t", "11">>,
       price_el |-> pe, price |-> <<"51.77", " ">>,
       star_el |-> TRUE, classes |-> <<"star-rating", "Three">>] :
        a \in BOOLEAN, h \in BOOLEAN, pe \in BOOLEAN }
    \cup { ([status |-> st] @@ NoBody) @@ NoBook :
             st \in {StatusNotFound, StatusServerError, NoResponse} }

\* What the GET of the start URL u can come back with: a book's page, or
\* the first page of a category, which has no .product_main h1 and shows
\* the price of its first product.
StartResponses(u) ==
    IF AddressesItem(u) THEN BookResponses
    ELSE { r @@ [NoBook EXCEPT !.price_el = (r.pods # << >>),
                               !.price = <<"51.77">>] :
             r \in ListingResponses(1) }

\* What the GET of page p of the listing at u can come back with: a book's
\* page has no product container.
CategoryResponses(u, p) ==
    IF AddressesItem(u)
    THEN { r \in ListingResponses(p) : r.pods = << >> }
    ELSE ListingResponses(p)

\* The page number scrape_single_book writes in its record (line 151).
SingleBookPage == 4

\* The record scrape_single_book builds from the page at url
\* (lines 136-153).
SingleBookRecord(r, u) ==
    [ Title        |-> Strip(r.title),
      Price        |-> Strip(r.price),
      Rating       |-> IF r.star_el /\ Len(r.classes) > 1
                       THEN parse_rating(r.classes[2]) ELSE None,
      Availability |-> IF r.avail_el THEN SplitJoin(r.text) ELSE EmptyText,
      Page         |-> SingleBookPage,
      Link         |-> u ]

\* start_scrape of web update.py (lines 298-308) has started the thread.
InitUpdate ==
    /\ already_running = FALSE
    /\ NoSave
    /\ mode = "none"
    /\ stop_event = FALSE
    /\ self_results = << >>
    /\ scrape_thread = "alive"
    /\ status_text = Status("Scraping started...", 0)
    /\ progress = 0
    /\ tree = << >>
    /\ dialog = NoDialog
    /\ afterq = << >>
    /\ pc = "u_start"
    /\ start_url \in UpdateStartUrls
    /\ max_pages_entry \in UpdateMaxPagesEntries
    /\ max_pages = None
    /\ url = start_url
    /\ page_num = 0
    /\ page_url = << >>
    /\ results = << >>
    /\ resp = NoResp
    /\ idx = 0
    /\ cand = NoCand
    /\ p_resp = NoResp
    /\ exc = NoExc
    /\ log = << >>
    /\ listings = << >>
    /\ stop_during = 0
    /\ end_reason = "none"
    /\ crawls = 1
    /\ progress_calls = << >>

\* _scrape_thread chooses the function to call (lines 312-317).
ScrapeThreadBegin ==
    /\ pc = "u_start"
    /\ IF TakenForSingleBook(url)
       THEN /\ mode' = "single"
            /\ pc' = "u_single"
            /\ UNCHANGED <<max_pages, page_num>>
       ELSE /\ mode' = "category"
            /\ max_pages' = MaxPagesOf(max_pages_entry)
            /\ page_num' = 1
            /\ pc' = "u_loop"
    /\ UNCHANGED gui_vars
    /\ UNCHANGED <<start_url, url, page_url, results, resp, idx, cand,
                   p_resp, exc>>
    /\ UNCHANGED history_vars
    /\ UNCHANGED <<sink_vars, start_vars>>

\* scrape_single_book: the GET of the URL (lines 131-133).
SingleBookGet ==
    /\ pc = "u_single"
    /\ \E r \in StartResponses(url) :
           /\ resp' = r
           /\ log' = Append(log, [kind |-> "single", page |-> 0, slot |-> 0,
                                  url |-> url, resp |-> NoResp])
    /\ pc' = "u_single_resp"
    /\ UNCHANGED gui_vars
    /\ UNCHANGED <<start_url, max_pages, url, page_num, page_url, results,
                   idx, cand, p_resp, exc>>
    /\ UNCHANGED <<listings, stop_during, end_reason, max_pages_entry, crawls,
                   progress_calls>>
    /\ UNCHANGED <<update_vars, sink_vars, start_vars>>

\* scrape_single_book: raise_for_status, the fields, the record
\* (lines 133-154). select_one gives None for a missing element, and
\* None.text raises.
SingleBookExtract ==
    /\ pc = "u_single_resp"
    /\ IF resp.status # StatusOk
       THEN /\ pc' = "u_raised"
            /\ exc' = [type |-> "RequestException", page |-> 0,
                       url |-> url, cause |-> resp.status]
            /\ UNCHANGED results
       ELSE IF ~resp.h1 \/ ~resp.price_el
       THEN /\ pc' = "u_raised"
            /\ exc' = [type |-> "AttributeError", page |-> 0,
                       url |-> url, cause |-> NoResponse]
            /\ UNCHANGED results
       ELSE /\ results' = <<SingleBookRecord(resp, url)>>
            /\ pc' = "u_return"
            /\ UNCHANGED exc
    /\ UNCHANGED gui_vars
    /\ UNCHANGED <<start_url, max_pages, url, page_num, page_url, resp, idx,
                   cand, p_resp>>
    /\ UNCHANGED history_vars
    /\ UNCHANGED <<update_vars, sink_vars, start_vars>>

\* scrape_category: the page's URL and the listing GET (lines 161-171).
CategoryTop ==
    /\ pc = "u_loop"
    /\ page_url' = PageUrl(url, page_num)
    /\ \E r \in CategoryResponses(url, page_num) :
           LET request == [kind |-> "listing", page |-> page_num, slot |-> 0,
                           url |-> page_url', resp |-> r]
           IN /\ resp' = r
              /\ log' = Append(log, request)
              /\ listings' = Append(listings, request)
    /\ pc' = "u_resp"
    /\ UNCHANGED gui_vars
    /\ UNCHANGED <<start_url, max_pages, url, page_num, results, idx, cand,
                   p_resp, exc>>
    /\ UNCHANGED <<stop_during, end_reason, max_pages_entry, crawls,
                   progress_calls>>
    /\ UNCHANGED <<update_vars, sink_vars, start_vars>>

\* scrape_category: 404, a failure (raise_for_status is not caught here),
\* an empty page or products (lines 172-179).
CategoryListing ==
    /\ pc = "u_resp"
    /\ IF resp.status = StatusNotFound
       THEN /\ pc' = "u_return"
            /\ end_reason' = "404"
            /\ UNCHANGED <<exc, idx>>
       ELSE IF resp.status # StatusOk
       THEN /\ pc' = "u_raised"
            /\ end_reason' = "fetch failed"
            /\ exc' = [type |-> "RequestException", page |-> page_num,
                       url |-> page_url, cause |-> resp.status]
            /\ UNCHANGED idx
       ELSE IF resp.pods = << >>
       THEN /\ pc' = "u_return"
            /\ end_reason' = "empty"
            /\ UNCHANGED <<exc, idx>>
       ELSE /\ pc' = "u_item"
            /\ idx' = 1
            /\ UNCHANGED <<exc, end_reason>>
    /\ UNCHANGED gui_vars
    /\ UNCHANGED <<start_url, max_pages, url, page_num, page_url, results,
                   resp, cand, p_resp>>
    /\ UNCHANGED <<log, listings, stop_during, max_pages_entry, crawls,
                   progress_calls>>
    /\ UNCHANGED <<update_vars, sink_vars, start_vars>>

\* scrape_category: one product container, then the detail GET
\* (lines 181-196). Here a missing price element raises as a missing title
\* anchor does.
CategoryItem ==
    /\ pc = "u_item"
    /\ LET pod == resp.pods[idx] IN
       IF ~pod.anchor \/ ~pod.price_el
       THEN /\ pc' = "u_raised"
            /\ end_reason' = "extraction failed"
            /\ exc' = [type |-> "AttributeError", page |-> page_num,
                       url |-> page_url, cause |-> NoResponse]
            /\ UNCHANGED <<cand, p_resp, log>>
       ELSE /\ cand' = Extract(pod, page_url)
            /\ pc' = "u_detail"
            /\ \E r \in DetailResponses :
                   /\ p_resp' = r
                   /\ log' = Append(log, [kind |-> "detail",
                                          page |-> page_num,
                                          slot |-> idx,
                                          url  |-> cand'.Link,
                                          resp |-> NoResp])
            /\ UNCHANGED <<exc, end_reason>>
    /\ UNCHANGED gui_vars
    /\ UNCHANGED <<start_url, max_pages, url, page_num, page_url, results,
                   resp, idx>>
    /\ UNCHANGED <<listings, stop_during, max_pages_entry, crawls,
                   progress_calls>>
    /\ UNCHANGED <<update_vars, sink_vars, start_vars>>

\* scrape_category: the detail response and the append; after the page's
\* last product the progress callback, the next page number and the page
\* cap (lines 197-217).
CategoryDetail ==
    /\ pc = "u_detail"
    /\ results' = Append(results, Record(cand, Availability(p_resp), page_num))
    /\ IF idx < Len(resp.pods)
       THEN /\ idx' = idx + 1
            /\ pc' = "u_item"
            /\ UNCHANGED <<page_num, afterq, end_reason>>
       ELSE /\ afterq' = Append(afterq, Callback("step", "", 0, NoExc))
            /\ page_num' = page_num + 1
            /\ IF MaxReached(max_pages, page_num')
               THEN pc' = "u_return" /\ end_reason' = "max"
               ELSE pc' = "u_loop" /\ UNCHANGED end_reason
            /\ UNCHANGED idx
    /\ UNCHANGED <<stop_event, self_results,
                   scrape_thread, status_text, progress, tree, dialog>>
    /\ UNCHANGED <<start_url, max_pages, url, page_url, resp, cand, p_resp, exc>>
    /\ UNCHANGED <<log, listings, stop_during, max_pages_entry, crawls,
                   progress_calls>>
    /\ UNCHANGED <<update_vars, sink_vars, start_vars>>

\* _scrape_thread: the function returned (lines 319-322).
ScrapeThreadDone ==
    /\ pc = "u_return"
    /\ self_results' = results
    /\ afterq' = afterq \o
         <<Callback("show", "", 0, NoExc),
           Callback("status", "Done", Len(results), NoExc),
           Callback("progress100", "", 0, NoExc)>>
    /\ pc' = "done"
    /\ scrape_thread' = "dead"
    /\ UNCHANGED <<stop_event, status_text, progress, tree, dialog>>
    /\ UNCHANGED <<start_url, max_pages, url, page_num, page_url, results,
                   resp, idx, cand, p_resp, exc>>
    /\ UNCHANGED history_vars
    /\ UNCHANGED <<update_vars, sink_vars, start_vars>>

\* _scrape_thread: the function raised (lines 323-325).
ScrapeThreadFailed ==
    /\ pc = "u_raised"
    /\ afterq' = afterq \o
         <<Callback("showerror", "Scraping failed", 0, exc),
           Callback("status", "Error occurred.", 0, NoExc)>>
    /\ pc' = "done"
    /\ scrape_thread' = "dead"
    /\ UNCHANGED <<stop_event, self_results,
                   status_text, progress, tree, dialog>>
    /\ UNCHANGED <<start_url, max_pages, url, page_num, page_url, results,
                   resp, idx, cand, p_resp, exc>>
    /\ UNCHANGED history_vars
    /\ UNCHANGED <<update_vars, sink_vars, start_vars>>

NextUpdate ==
    \/ ScrapeThreadBegin
    \/ SingleBookGet
    \/ SingleBookExtract
    \/ CategoryTop
    \/ CategoryListing
    \/ CategoryItem
    \/ CategoryDetail
    \/ ScrapeThreadDone
    \/ ScrapeThreadFailed

SpecUpdate == InitUpdate /\ [][NextUpdate]_vars

(***************************************************************************)
(* Saving: the Save Results button of web.py, the Save As radio buttons   *)
(* and the Clear Results button, after a crawl has handed its list over   *)
(* and the main loop has run its callbacks.                               *)
(***************************************************************************)

\* The start URL the saved crawls were started with.
SavedStartUrl == <<"http:", "", "h", "c", "index.html">>

\* The record of the product in slot i of listing page p, its detail GET
\* answered with r.
SavedRecord(p, i, r) ==
    Record(Extract(Pod(p, i, TRUE), PageUrl(SavedStartUrl, p)),
           Availability(r), p)

\* The lists a crawl may have left in self.results.
SavedResultLists ==
    { <<SavedRecord(1, 1, [status |-> StatusOk, pods |-> << >>,
                           avail_el |-> TRUE, text |-> <<"In", " ", "stock">>]),
        SavedRecord(1, 2, [status |-> StatusServerError] @@ NoBody)>>,
      <<SavedRecord(2, 1, [status |-> StatusOk] @@ NoBody)>> }

\* pd.DataFrame(self.results): one row per record, its values in the order
\* of the record's keys.
DataFrame(rs) ==
    [ i \in 1..Len(rs) |->
        <<rs[i].Title, rs[i].Price, rs[i].Rating, rs[i].Availability,
          rs[i].Page, rs[i].Link>> ]

\* str(x) of a rating or a page number.
StrInt(x) ==
    IF x = None THEN <<"None">>
    ELSE <<<<"0", "1", "2", "3", "4", "5", "6">>[x + 1]>>

\* tuple(str(x) for x in r) for every row of the DataFrame (line 159):
\* text stays as it is, numbers and None become text.
MysqlRows(frame) ==
    [ i \in 1..Len(frame) |->
        <<frame[i][1], frame[i][2], StrInt(frame[i][3]), frame[i][4],
          StrInt(frame[i][5]), frame[i][6]>> ]

\* What a destination holds of the DataFrame once it is written in full.
StoredRows(t, frame) == IF t = "mysql" THEN MysqlRows(frame) ELSE frame

\* Mutant: if_exists = "append", mode = "a": the rows are added to what the
\* destination holds.
WriteFile_Append(old, rows) == Holding(old.rows \o rows)

\* df.to_csv, df.to_excel, df.to_sql(if_exists="replace"): the file or the
\* table holds the rows written and nothing else (lines 132-139).
WriteFile(old, rows) == Holding(rows)

\* The steps of save_to_mysql in order (lines 144-161).
MysqlSteps ==
    <<"connect", "create database", "drop table", "create table",
      "insert", "commit">>

\* The step after the step at.
MysqlNext(at) ==
    LET i == CHOOSE k \in 1..Len(MysqlSteps) : MysqlSteps[k] = at
    IN IF i = Len(MysqlSteps) THEN "idle" ELSE MysqlSteps[i + 1]

\* The committed contents of the table once the step at has succeeded:
\* DROP TABLE and CREATE TABLE take effect at once, the rows of INSERT at
\* the commit.
MysqlTable(at, table, rows) ==
    CASE at = "drop table" -> Absent
      [] at = "create table" -> Holding(<< >>)
      [] at = "commit" -> Holding(table.rows \o rows)
      [] OTHER -> table

\* What the save handlers never assign.
SaveFrame_ClearsResults ==
    /\ self_results' = IF save_pc' = "idle" /\ box' = "Saved" THEN << >>
                       ELSE self_results
    /\ UNCHANGED <<stop_event, scrape_thread, status_text, progress, tree,
                   dialog, afterq>>
    /\ UNCHANGED worker_vars
    /\ UNCHANGED history_vars
    /\ UNCHANGED <<update_vars, mysql_available, start_vars>>

SaveFrame ==
    /\ UNCHANGED gui_vars
    /\ UNCHANGED worker_vars
    /\ UNCHANGED history_vars
    /\ UNCHANGED <<update_vars, mysql_available, start_vars>>

\* A Save As radio button (lines 190-194).
select_save_type ==
    /\ save_pc = "idle"
    /\ \E t \in Destinations : save_type' = t
    /\ UNCHANGED <<save_pc, df, store, box, store_before>>
    /\ SaveFrame

\* save_results up to the file dialog or the connection (lines 306-313,
\* 328-336).
save_results_begin ==
    /\ save_pc = "idle"
    /\ IF self_results = << >>
       THEN /\ box' = "No data"
            /\ UNCHANGED <<save_pc, df, store_before>>
       ELSE /\ df' = DataFrame(self_results)
            /\ store_before' = store
            /\ IF save_type # "mysql"
               THEN save_pc' = "dialog" /\ UNCHANGED box
               ELSE IF ~mysql_available
               THEN box' = "MySQL unavailable" /\ UNCHANGED save_pc
               ELSE save_pc' = "connect" /\ UNCHANGED box
    /\ UNCHANGED <<save_type, store>>
    /\ SaveFrame

\* The file dialog: a path, or nothing when it is abandoned
\* (lines 313-314, 318-319, 323-324).
save_results_dialog ==
    /\ save_pc = "dialog"
    /\ \E chosen \in BOOLEAN :
           save_pc' = IF chosen THEN "write" ELSE "idle"
    /\ UNCHANGED <<save_type, df, store, box, store_before>>
    /\ SaveFrame

\* save_to_csv, save_to_excel, save_to_sqlite and the box that follows
\* (lines 315-316, 320-321, 325-326, 342-343). What a write that raises
\* inside pandas leaves in the file is not decided by this program: it is
\* taken here to fail before the file is touched (the path cannot be
\* opened), the case kindest to the destination.
save_results_write ==
    /\ save_pc = "write"
    /\ \/ /\ store' = [store EXCEPT ![save_type] = WriteFile(@, df)]
          /\ box' = "Saved"
       \/ /\ UNCHANGED store
          /\ box' = "Save error"
    /\ save_pc' = "idle"
    /\ UNCHANGED <<save_type, df, store_before>>
    /\ SaveFrame

\* One step of save_to_mysql, which succeeds or raises; after the last the
\* "Saved" box, after a failure the "Save error" box (lines 338-343).
save_to_mysql ==
    /\ save_pc \in { MysqlSteps[k] : k \in 1..Len(MysqlSteps) }
    /\ \/ /\ store' = [store EXCEPT
                         !["mysql"] = MysqlTable(save_pc, @, MysqlRows(df))]
          /\ save_pc' = MysqlNext(save_pc)
          /\ box' = IF save_pc' = "idle" THEN "Saved" ELSE box
       \/ /\ save_pc' = "idle"
          /\ box' = "Save error"
          /\ UNCHANGED store
    /\ UNCHANGED <<save_type, df, store_before>>
    /\ SaveFrame

\* The Clear Results button, while nothing is being saved.
clear_results_idle ==
    /\ save_pc = "idle"
    /\ clear_results

\* What the destinations may hold before the first save of this run:
\* nothing, or what a save of an earlier run left there.
PriorStores ==
    { [d \in Destinations |-> IF d \in full
                             THEN Holding(StoredRows(d, DataFrame(rs)))
                             ELSE Absent] :
        full \in SUBSET Destinations, rs \in SavedResultLists }

InitSave ==
    /\ already_running = FALSE
    /\ NoUpdate
    /\ mysql_available \in BOOLEAN
    /\ save_type = "csv"
    /\ save_pc = "idle"
    /\ df = << >>
    /\ store \in PriorStores
    /\ box = ""
    /\ store_before = store
    /\ stop_event = FALSE
    /\ self_results \in SavedResultLists
    /\ scrape_thread = "dead"
    /\ status_text = Status("Scraping finished", Len(self_results))
    /\ progress = ProgressMaximum
    /\ tree = PopulatePreview(self_results)
    /\ dialog = NoDialog
    /\ afterq = << >>
    /\ pc = "done"
    /\ start_url = SavedStartUrl
    /\ max_pages_entry = ""
    /\ max_pages = None
    /\ url = start_url
    /\ page_num = 0
    /\ page_url = << >>
    /\ results = self_results
    /\ resp = NoResp
    /\ idx = 0
    /\ cand = NoCand
    /\ p_resp = NoResp
    /\ exc = NoExc
    /\ log = << >>
    /\ listings = << >>
    /\ stop_during = 0
    /\ end_reason = "none"
    /\ crawls = 1
    /\ progress_calls = << >>

NextSave ==
    \/ select_save_type
    \/ save_results_begin
    \/ save_results_dialog
    \/ save_results_write
    \/ save_to_mysql
    \/ clear_results_idle

SpecSave == InitSave /\ [][NextSave]_vars

(* ------------------------ reading the history ------------------------- *)

\* The listing requests of this crawl, oldest first.
Listings == listings

\* The listing pages requested, oldest first.
PagesFetched == [i \in 1..Len(Listings) |-> Listings[i].page]

\* What a record owes to the listing page: every field but Availability.
ListingFields(r) ==
    [ Title |-> r.Title, Price |-> r.Price, Rating |-> r.Rating,
      Page |-> r.Page, Link |-> r.Link ]

\* The listing fields of the products of one listing response, in the order
\* of its product containers.
ItemsOfListing(e) ==
    [ i \in 1..Len(e.resp.pods) |->
        LET x == Extract(e.resp.pods[i], e.url) IN
        [ Title |-> x.Title, Price |-> x.Price, Rating |-> x.Rating,
          Page |-> e.page, Link |-> x.Link ] ]

\* The items of the listing pages served so far: page order, then the
\* order of the page's product containers.
RECURSIVE ItemsOf(_)
ItemsOf(ls) ==
    IF ls = << >> THEN << >>
    ELSE ItemsOfListing(Head(ls)) \o ItemsOf(Tail(ls))

ItemsServed == ItemsOf(Listings)

FieldsOf(rs) == [i \in 1..Len(rs) |-> ListingFields(rs[i])]

IsPrefix(a, b) == Len(a) <= Len(b) /\ a = SubSeq(b, 1, Len(a))

\* scrape_books_toscrape has returned its list (it did not raise).
Returned == pc \in {"return", "done"} /\ end_reason \in {"stop", "404", "empty", "max"}

\* scrape_books_toscrape has raised.
Raised == pc \in {"raised", "done"} /\ exc # NoExc

\* A step of the worker thread that handles the detail response.
DetailStep == pc = "detail" /\ <<pc, idx, page_num>>' # <<pc, idx, page_num>>

(* ------------------------------ claims -------------------------------- *)

Ascending(n) == [i \in 1..n |-> i]

NonEmptyListings ==
    Cardinality({ i \in 1..Len(Listings) : Listings[i].resp.pods # << >> })

(* C1: when Stop is pressed while the products of page k are being
   enriched, no listing page after k is ever requested, and when
   scrape_books_toscrape returns, its list holds the records of every
   product of pages 1..k, in order. *)
C1_StopDuringEnrichment ==
    stop_during > 0 =>
        /\ \A i \in 1..Len(PagesFetched) : PagesFetched[i] <= stop_during
        /\ Returned =>
              /\ PagesFetched = Ascending(stop_during)
              /\ NonEmptyListings = stop_during
              /\ FieldsOf(results) = ItemsServed

C1_Witness ==
    /\ stop_during = 2
    /\ pc = "return"
    /\ end_reason = "stop"
    /\ Len(results) = 4

(* C2: a listing page that answers 200 with no product container is the
   last request of the crawl: scrape_books_toscrape returns, without
   raising, the records of the pages before it. *)
C2_EmptyPageEndsCrawl ==
    \A i \in 1..Len(Listings) :
        (Listings[i].resp.status = StatusOk /\ Listings[i].resp.pods = << >>) =>
            /\ i = Len(Listings)
            /\ log[Len(log)] = Listings[i]
            /\ \A j \in 1..Len(PagesFetched) : PagesFetched[j] <= Listings[i].page
            /\ pc \in {"resp", "return", "done"}
            /\ pc # "resp" =>
                  /\ Returned
                  /\ end_reason = "empty"
                  /\ exc = NoExc
                  /\ FieldsOf(results) = ItemsServed
                  /\ NonEmptyListings = Listings[i].page - 1

C2_Witness ==
    /\ pc = "return"
    /\ end_reason = "empty"
    /\ page_num = 2
    /\ Len(results) = 2

(* C3: with a positive max_pages N no listing page after N is requested;
   a crawl that returns holds the records of the pages it was served, which
   are pages 1..N when it stopped at the cap and pages 1..j with j < N when
   page j+1 was empty or missing (or Stop was pressed after page j). *)
C3_MaxPagesCap ==
    (max_pages # None /\ max_pages > 0) =>
        /\ \A i \in 1..Len(PagesFetched) : PagesFetched[i] <= max_pages
        /\ Returned =>
              /\ PagesFetched = Ascending(Len(Listings))
              /\ FieldsOf(results) = ItemsServed
              /\ end_reason = "max" =>
                    /\ NonEmptyListings = max_pages
                    /\ Len(Listings) = max_pages
              /\ end_reason \in {"404", "empty"} =>
                    /\ NonEmptyListings < max_pages
                    /\ Len(Listings) = NonEmptyListings + 1
              /\ end_reason = "stop" =>
                    /\ NonEmptyListings < max_pages
                    /\ Len(Listings) = NonEmptyListings

C3_Witness ==
    /\ max_pages = 2
    /\ pc = "return"
    /\ end_reason = "max"
    /\ Len(results) = 4

(* C4: the step that handles a failed detail GET (a status other than 200,
   or no response) appends the record of the product with a blank
   Availability, the listing fields as extracted from the listing page and
   the page's number, and goes on to the next product or page without
   raising. *)
C4_DetailFailureKeepsItem ==
    [][(DetailStep /\ p_resp.status # StatusOk) =>
          /\ results' = Append(results,
                 LET x == Extract(resp.pods[idx], page_url) IN
                 [ Title |-> x.Title, Price |-> x.Price, Rating |-> x.Rating,
                   Availability |-> EmptyText, Page |-> page_num,
                   Link |-> x.Link ])
          /\ pc' \in {"item", "loop", "return"}
          /\ exc' = NoExc]_vars

C4_Witness ==
    /\ pc = "item"
    /\ idx = 2
    /\ p_resp.status # StatusOk
    /\ Len(results) = 1
    /\ results[1].Availability = EmptyText
    /\ results[1].Title = <<"t", "1", "1">>

(* C5: when the listing GET of a page k > 1 fails, the step of _run_scrape
   that handles the exception leaves the records of pages 1..k-1 in
   self.results. *)
C5_FailedCrawlKeepsRecords ==
    [][(pc = "raised" /\ pc' = "done" /\ exc.type = "RuntimeError"
          /\ exc.page > 1) => self_results' = results]_vars

(* C6: when the listing GET of page 1 fails (neither 200 nor 404), that GET
   is the only request of the crawl, no record is produced or stored,
   scrape_books_toscrape raises RuntimeError naming page 1 and the cause,
   and _run_scrape hands the error to the main loop, which shows it. *)
C6_FirstPageFailure ==
    (/\ Len(Listings) >= 1
     /\ Listings[1].resp.status \notin {StatusOk, StatusNotFound}
     /\ pc # "resp") =>
        /\ Len(log) = 1
        /\ results = << >>
        /\ self_results = << >>
        /\ Raised
        /\ exc.type = "RuntimeError"
        /\ exc.page = 1
        /\ exc.cause = Listings[1].resp.status
        /\ pc = "done" =>
              \/ \E i \in 1..Len(afterq) :
                     afterq[i].cb = "showerror" /\ afterq[i].exc = exc
              \/ dialog.exc = exc

C6_Witness ==
    /\ pc = "done"
    /\ exc.type = "RuntimeError"
    /\ exc.page = 1
    /\ exc.cause = StatusServerError
    /\ Len(log) = 1
    /\ afterq[Len(afterq) - 1].cb = "showerror"
    /\ afterq[Len(afterq) - 1].exc = exc

(* C7: a listing GET answered 404 is the last request of the crawl:
   scrape_books_toscrape returns, without raising, the records of the
   pages before it. *)
C7_NotFoundEndsPagination ==
    \A i \in 1..Len(Listings) :
        Listings[i].resp.status = StatusNotFound =>
            /\ i = Len(Listings)
            /\ log[Len(log)] = Listings[i]
            /\ pc \in {"resp", "return", "done"}
            /\ pc # "resp" =>
                  /\ Returned
                  /\ end_reason = "404"
                  /\ exc = NoExc
                  /\ FieldsOf(results) = ItemsServed
                  /\ NonEmptyListings = Listings[i].page - 1

C7_Witness ==
    /\ pc = "return"
    /\ end_reason = "404"
    /\ page_num = 3
    /\ Len(results) = 4

(* C8: the list being built, and the list stored in self.results, hold the
   records of the products served so far in page order and, within a page,
   in the order of the page's product containers; each record's Page is the
   number of the listing page it came from, and the Page values start at 1
   and never decrease. *)
C8_ResultOrder ==
    /\ IsPrefix(FieldsOf(results), ItemsServed)
    /\ \A i \in 1..(Len(results) - 1) : results[i].Page <= results[i + 1].Page
    /\ results # << >> => results[1].Page = 1
    /\ self_results \in {<< >>, results}

C8_Witness ==
    /\ pc = "done"
    /\ self_results = results
    /\ Len(results) = 4
    /\ results[2].Page = 1
    /\ results[3].Page = 2
    /\ results[1].Title # results[2].Title

(* C9: a crawl that ends because the stop flag was set is reported to the
   caller otherwise than a crawl that completed: the hand-over of
   _run_scrape does not report "Scraping finished" for it. *)
C9_CancelledIsReported ==
    [][(pc = "return" /\ pc' = "done" /\ end_reason = "stop") =>
          \A i \in (Len(afterq) + 1)..Len(afterq') :
              afterq'[i].text # "Scraping finished"]_vars

(* C10: a crawl started with a Max Pages entry that is not positive, or
   with a malformed start URL, sends no request. *)
C10_InvalidRequestRejected ==
    (/\ crawls > 0
     /\ \/ max_pages_entry \in {"0", "-1"}
        \/ ~WellFormedUrl(start_url)) => log = << >>

\* The rule of lines 56-60 read on the URL su for page n >= 2: the parent
\* path when su ends with index.html, su itself otherwise, then the page
\* file.
PageUrlRule(su, n) ==
    IF EndsWithIndex(su) THEN RSplitBase(su) \o <<PageFile(n)>>
    ELSE su \o <<PageFile(n)>>

(* C11, as stated: every listing request for a page n >= 2 goes to the URL
   the rule gives for the start URL and n, whatever the earlier pages
   answered: the parent path of a start URL ending with index.html, or
   else the start URL, followed by /page-n.html. *)
C11_PageUrlFromStartUrl ==
    \A i \in 1..Len(Listings) :
        Listings[i].page >= 2 =>
            Listings[i].url = PageUrlRule(start_url, Listings[i].page)

(* C11, amended: every listing request for a page n >= 2 goes to the URL
   the rule gives for the start URL without its trailing slashes and n,
   whatever the earlier pages answered. *)
C11_PageUrlFromStrippedStartUrl ==
    \A i \in 1..Len(Listings) :
        Listings[i].page >= 2 =>
            Listings[i].url =
                PageUrlRule(RStripSlash(start_url), Listings[i].page)

C11_Witness ==
    /\ EndsWithIndex(start_url)
    /\ Len(Listings) >= 2
    /\ Listings[2].page = 2
    /\ Listings[2].url = <<"http:", "", "h", "c", "page-2.html">>
    /\ Listings[1].resp.pods # << >>

\* The labels the catalog writes its ratings with, lowest first.
RatingWords == <<"One", "Two", "Three", "Four", "Five">>

\* The class name parse_rating is given for a product container, or
\* "(none)" when lines 86-90 do not call it.
RatingLabelOf(pod) ==
    IF pod.star_el /\ Len(pod.classes) > 1 THEN pod.classes[2] ELSE "(none)"

(* C12: parse_rating gives 1, 2, 3, 4, 5 for exactly the labels One, Two,
   Three, Four, Five and None for every other label, without raising: the
   Rating of the record of every product container is k exactly when the
   label of the container is the k-th of these, it is None otherwise, and
   the item loop does not leave with an exception; so every record's
   Rating is None or in 1..5. *)
C12_ParseRatingTotal ==
    /\ pc # "raised"
    /\ pc \in {"detail", "loop", "return"} =>
          \A k \in 1..5 :
              cand.Rating = k <=> RatingLabelOf(resp.pods[idx]) = RatingWords[k]
    /\ \A i \in 1..Len(results) :
          /\ results[i].Rating \in {None} \cup (1..5)
          /\ \A k \in 1..5 :
                results[i].Rating = k <=>
                    RatingLabelOf(Listings[1].resp.pods[i]) = RatingWords[k]

C12_Witness ==
    /\ Len(results) = 1
    /\ Listings[1].resp.pods[1].classes = <<"star-rating", "Three">>
    /\ Listings[1].resp.pods[1].star_el
    /\ results[1].Rating = 3

\* _scrape_thread's function has returned its list.
UpdateReturned == pc = "u_return" \/ (pc = "done" /\ exc = NoExc)

(* C13: a crawl whose start URL addresses a single book's detail page and
   whose function returns produces exactly one record, with Page 1 and
   Link the start URL, after one request and without a listing request. *)
C13_SingleItemCrawl ==
    (AddressesItem(start_url) /\ UpdateReturned) =>
        /\ Len(results) = 1
        /\ results[1].Page = 1
        /\ results[1].Link = start_url
        /\ Len(log) = 1
        /\ Listings = << >>
        /\ mode = "single"

\* The step on which a save ends with its "Saved" box.
SaveSucceeds ==
    save_pc \in {"write", "commit"} /\ save_pc' = "idle" /\ box' = "Saved"

\* A step of save_results or of the function it calls.
SaveStep == save_pc # "idle" \/ save_pc' # "idle" \/ box' # box

(* C14: when a save ends with success, the destination of the selected
   format holds the rows of the records in self.results, in their order,
   and no other row, whatever it held before the save. *)
C14_WriteReplaces ==
    [][SaveSucceeds =>
          store'[save_type] =
              Holding(StoredRows(save_type, DataFrame(self_results)))]_vars

C14_Witness ==
    /\ save_pc = "idle"
    /\ box = "Saved"
    /\ save_type = "sqlite"
    /\ store_before["sqlite"].exists
    /\ Len(store_before["sqlite"].rows) = 2
    /\ store["sqlite"] = Holding(DataFrame(self_results))
    /\ Len(self_results) = 1

(* C15: after a save that ended with the "Save error" box, every
   destination holds what it held when the save began. *)
C15_FailedWriteLeavesDestination ==
    (save_pc = "idle" /\ box = "Save error") => store = store_before

(* C16: no step of save_results, whether the save succeeds, fails or is
   abandoned at the file dialog, changes self.results. *)
C16_SaveKeepsResults ==
    [][SaveStep => self_results' = self_results]_vars

C16_Witness ==
    /\ save_pc = "idle"
    /\ box = "Save error"
    /\ self_results # << >>
    /\ store["mysql"] # store_before["mysql"]

\* A step of the worker thread of web.py.
WorkerStep ==
    /\ pc \in {"start", "loop", "resp", "item", "detail", "return", "raised"}
    /\ pc' # pc

(* C17: no step of the worker thread writes a variable the GUI thread
   reads or writes (self.results, the stop flag, the status line, the
   progress bar, the preview, the error box): what it has for the GUI it
   hands to root.after. *)
C17_OneWayHandoff ==
    [][WorkerStep =>
          /\ self_results' = self_results
          /\ UNCHANGED <<stop_event, status_text, progress, tree, dialog>>]_vars

(* C18: a start URL that addresses a category listing is crawled through
   the page loop of scrape_category, and only a start URL that addresses
   a single book takes scrape_single_book. *)
C18_CategoryThroughPageLoop ==
    mode # "none" => (mode = "single" <=> AddressesItem(start_url))

(* C19: the listing request for page 1 goes to the start URL exactly as
   the caller gave it, a start URL that ends with a slash included. *)
C19_FirstPageIsStartUrl ==
    \A i \in 1..Len(Listings) :
        Listings[i].page = 1 => Listings[i].url = start_url

\* The listing pages that yielded products and whose item loop is over.
PagesCompleted ==
    IF /\ pc \in {"resp", "item", "detail"}
       /\ Listings # << >>
       /\ Listings[Len(Listings)].resp.pods # << >>
    THEN NonEmptyListings - 1
    ELSE NonEmptyListings

\* The records of the products of the first k listing requests.
ItemsUpTo(k) == Len(ItemsOf(SubSeq(Listings, 1, k)))

(* C20: progress_callback is called exactly once for each listing page
   that yielded products, after the records of all its products are
   appended and before the next page is requested; it is given the page's
   number and the number of records appended so far, and the page numbers
   it is given are 1, 2, 3, ... *)
C20_ProgressOncePerPage ==
    /\ Len(progress_calls) = PagesCompleted
    /\ \A k \in 1..Len(progress_calls) :
          /\ progress_calls[k].current_page = k
          /\ progress_calls[k].fetched = k
          /\ progress_calls[k].appended = ItemsUpTo(k)
          /\ progress_calls[k].second = progress_calls[k].appended

\* The product containers of the listing pages served so far, page order
\* then container order.
RECURSIVE PodsOf(_)
PodsOf(ls) ==
    IF ls = << >> THEN << >>
    ELSE Head(ls).resp.pods \o PodsOf(Tail(ls))

(* C21: a product container without title anchor, price element or rating
   element still gets its record: the crawl does not raise on it, the
   field whose markup is missing holds its sentinel ("N/A" for the title
   and the price, None for the rating), and the fields whose markup is
   there are extracted as usual. *)
C21_MissingFieldDegrades ==
    /\ end_reason # "extraction failed"
    /\ \A i \in 1..Len(results) :
          LET pod == PodsOf(Listings)[i] IN
          /\ results[i].Title = IF pod.anchor THEN Strip(pod.title)
                                ELSE <<"N/A">>
          /\ results[i].Price = IF pod.price_el THEN Strip(pod.price)
                                ELSE <<"N/A">>
          /\ (~pod.star_el) => results[i].Rating = None


(* C22: in the web.py GUI at most one crawl worker thread is alive at any  *)
(* time: no step taken while a worker is alive starts a crawl, and the     *)
(* Start Scraping event that is answered with the "Already running" box    *)
(* leaves the stop flag, the stored results, the progress state and the    *)
(* worker as they are.                                                     *)
C22_OneWorkerAlive ==
    [][ /\ (scrape_thread = "alive" => crawls' = crawls)
        /\ (~already_running /\ already_running') =>
              /\ scrape_thread = "alive"
              /\ UNCHANGED <<stop_event, self_results, scrape_thread,
                             status_text, progress, tree, afterq>>
              /\ UNCHANGED worker_vars
              /\ UNCHANGED history_vars ]_vars

\* Start was pressed, and refused, while the second crawl was fetching the
\* detail page of a product, Stop not pressed.
C22_Witness ==
    /\ already_running
    /\ scrape_thread = "alive"
    /\ crawls = 2
    /\ pc = "detail"
    /\ ~stop_event


(* C23: a Stop request made while the worker is enriching a page is never  *)
(* lost: stop_event stays true for as long as that worker is alive, the    *)
(* worker starts no listing fetch for a page after the one in progress     *)
(* when Stop was pressed, and once the worker has exited it has handed     *)
(* over the records gathered so far (self.results holds them).            *)
C23_StopNeverLost ==
    stop_during > 0 =>
        /\ scrape_thread = "alive" => stop_event
        /\ \A i \in 1..Len(PagesFetched) : PagesFetched[i] <= stop_during
        /\ pc = "done" => self_results = results


(* C24: after a Clear Results event the stored result set and the preview  *)
(* stay empty until the user starts a new crawl. While the status line     *)
(* still reads "Cleared results" nothing has written it since the Clear    *)
(* (start_scrape writes "Starting..."), so no crawl has been started       *)
(* since, and self.results and the preview table hold nothing.             *)
C24_ClearedStaysEmpty ==
    status_text.text = "Cleared results" =>
        /\ self_results = << >>
        /\ tree = << >>


\* The page loop has been left.
LoopLeft == end_reason # "none"

(* C25: every crawl reaches a terminal state when every request returns    *)
(* and the thread is scheduled. The k-th listing fetch is for page k, so   *)
(* no page is fetched twice; with a positive max_pages N there are at most *)
(* N listing fetches; every listing fetch but the last one gave products,  *)
(* so the first 404, failure or empty page is the last fetch; and once the *)
(* loop has been left (those three, the stop flag seen at the top of the   *)
(* loop, the page cap, a failed extraction) no listing is fetched again.   *)
C25_CrawlTerminates ==
    /\ [](\A k \in 1..Len(Listings) : Listings[k].page = k)
    /\ []((max_pages # None /\ max_pages > 0) => Len(Listings) <= max_pages)
    /\ [](\A k \in 1..(Len(Listings) - 1) :
             ListingOutcome(Listings[k].resp) = "products")
    /\ [][LoopLeft => listings' = listings]_vars
    /\ <>(pc = "done")

\* A crawl capped at two pages has ended at the cap after two listing
\* fetches.
C25_Witness ==
    /\ pc = "done"
    /\ max_pages = 2
    /\ end_reason = "max"
    /\ Len(Listings) = 2

=============================================================================
